---- MODULE Spec2Model ----
(***************************************************************************)
(* RosBaseSink (gst_bridge/src/rosbasesink.cpp): the GStreamer base sink   *)
(* that opens a ROS node on NULL->READY, samples the GStreamer/ROS clock   *)
(* offset on PAUSED->PLAYING, stamps every rendered buffer and closes the  *)
(* node on READY->NULL.                                                    *)
(*                                                                         *)
(* One element is modelled.  Every entry point of the element (a state     *)
(* change, a property set, set_caps, render) is one atomic action; the     *)
(* GStreamer core is the caller: it issues state changes along the         *)
(* NULL/READY/PAUSED/PLAYING lattice and commits the new state unless the  *)
(* handler returns GST_STATE_CHANGE_FAILURE.  The entry points themselves  *)
(* carry no guard in the source, so set_property, set_caps and render may  *)
(* be called in any state.                                                 *)
(***************************************************************************)
EXTENDS Integers, Sequences, FiniteSets, TLC

\* ------------------------------------------------------------------ bounds

\* Width of GstClockTime / GstClockTimeDiff words in the model (64 in the code).
WordBits == 4
\* Most clock-offset samples taken in one behaviour.
MaxSamples == 2
\* The read interval of one offset sample: how far apart its two clock reads lie.
Epsilon == 1

RECURSIVE Pow2(_)
Pow2(n) == IF n = 0 THEN 1 ELSE 2 * Pow2(n - 1)

Modulus == Pow2(WordBits)
\* GST_CLOCK_TIME_NONE: all bits set.
CLOCK_TIME_NONE == Modulus - 1
MaxSigned == Pow2(WordBits - 1) - 1
MinSigned == 0 - Pow2(WordBits - 1)

\* Conversion of an integer to the unsigned word (guint64) holding it.
ToUnsigned(x) == x % Modulus
\* Conversion of an unsigned word to the signed word (gint64, int64_t) with the same bits.
ToSigned(u) == IF u % Modulus > MaxSigned THEN (u % Modulus) - Modulus ELSE u % Modulus

\* ------------------------------------------------------------------ inputs

NodeNames == {"gst_base_sink_node", "gst_audio"}
NodeNamespaces == {"", "ns"}
\* Presentation timestamps of buffers (guint64), GST_CLOCK_TIME_NONE included.
PtsValues == {3, CLOCK_TIME_NONE}
\* Values of gst_element_get_base_time (guint64).
BaseTimeValues == {0, 2}
\* Readings of the pipeline clock and of the ROS clock at a sample.
GstClockReadings == {2}
RosClockReadings == {1, 5}
\* Caps proposed to set_caps, by their format field.
CapsFormats == {"S16LE", "F32LE", "S24_32BE"}
\* GST_BRIDGE_GST_AUDIO_FORMAT_LIST: the formats of the sink pad template.
TemplateFormats == {"S8", "U8", "S16LE", "U16LE", "S32LE", "U32LE", "F32LE", "F64LE"}
\* Caps filters handed to get_caps: the candidate formats, in order of preference.
CapsFilters == {<<"S24_32BE">>, <<"S16LE", "F32LE">>}
\* What the parent class (GstBaseSink) handler may return.
ParentReturns == {"SUCCESS", "ASYNC", "FAILURE"}
FlowReturns == {"FLOW_OK", "FLOW_ERROR"}

\* The subclass: which hooks of RosBaseSinkClass are set (non-NULL).
Classes == [open : BOOLEAN, close : BOOLEAN, set_caps : BOOLEAN, render : BOOLEAN]

\* ------------------------------------------------------------------ state

VARIABLES
    klass,        \* the element's class: the hooks the subclass installed
    sink,         \* the RosBaseSink instance fields
    state,        \* GST_STATE(element), kept by the GStreamer core
    negotiated,   \* format accepted by set_caps since the last open ("none": none)
    samples,      \* every clock-offset sample taken so far, in order
    sampledInCycle, \* a sample was taken since the last NULL->READY
    crashed,      \* control left the element abnormally (exception, null dereference)
    lastCall,     \* what the last entry-point call did and returned
    peer,         \* a second element of the same class: its fields and its state
    clk           \* the two clocks at the moment of a sample, as the environment has them

vars == <<klass, sink, state, negotiated, samples, sampledInCycle, crashed, lastCall,
          peer, clk>>

NullNode == [live |-> FALSE, name |-> "", namespace |-> ""]

NoCall ==
    [op |-> "none", transition |-> "none", ret |-> "none", parent |-> "none",
     hook |-> "none", steps |-> <<>>, accepted |-> FALSE, logged |-> "none",
     pts |-> 0, base_time |-> 0, offset |-> 0, msg_time |-> 0,
     hadNode |-> FALSE, hadCaps |-> FALSE, hadSample |-> FALSE, before |-> "none",
     caps |-> <<>>]

\* One step of a handler, with what existed when it ran.
Step(what, s) == [what |-> what, node |-> s.node.live, ctx |-> s.ros_context]

BoolStr(b) == IF b THEN "TRUE" ELSE "FALSE"

\* rosbasesink_init: instance memory is zero-filled by GObject, then the two
\* identity strings get their defaults.
rosbasesink_init ==
    [node_name |-> "gst_base_sink_node", node_namespace |-> "",
     ros_context |-> "null", node |-> NullNode,
     logger |-> "unset", clock |-> "null", ros_clock_offset |-> 0]

\* The second element as constructed.
NoPeer == [sink |-> rosbasesink_init, state |-> "Null"]

\* No sample under way: the clocks are not being read.
NoClocks == [gst_now |-> 0, true_offset |-> 0, skew |-> 0, read |-> FALSE]

Init ==
    /\ klass \in Classes
    /\ sink = rosbasesink_init
    /\ state = "Null"
    /\ negotiated = "none"
    /\ samples = <<>>
    /\ sampledInCycle = FALSE
    /\ crashed = FALSE
    /\ lastCall = NoCall
    /\ peer = NoPeer
    /\ clk = NoClocks

\* ---------------------------------------------------------------- handlers

\* gst_bridge::sample_clock_offset: the difference between the ROS clock and the
\* pipeline clock, each read once.
sample_clock_offset(gst_now, ros_now) == ros_now - gst_now

\* Mutant of rosbasesink_open: the subclass open hook runs first, before the
\* context is initialised and the node constructed.
rosbasesink_open_hookFirst(s, k, ctxOk, nodeOk, hookRes) ==
    LET s1 == [s EXCEPT !.ros_context = IF ctxOk THEN "valid" ELSE "uninitialised"]
        s2 == [s1 EXCEPT !.node = [live |-> TRUE, name |-> s.node_name,
                                   namespace |-> s.node_namespace]]
        s3 == [s2 EXCEPT !.logger = "node", !.clock = "node"]
        first == IF k.open THEN <<Step("open_hook", s)>> ELSE <<>>
    IN  IF ~ctxOk
        THEN [sink |-> s1, result |-> FALSE, threw |-> TRUE, hook |-> "none",
              steps |-> first \o <<Step("context_init", s)>>]
        ELSE IF ~nodeOk
        THEN [sink |-> s1, result |-> FALSE, threw |-> TRUE, hook |-> "none",
              steps |-> first \o <<Step("context_init", s), Step("node_new", s1)>>]
        ELSE [sink |-> s3,
              result |-> IF k.open THEN hookRes ELSE TRUE,
              threw |-> FALSE,
              hook |-> IF k.open THEN BoolStr(hookRes) ELSE "none",
              steps |-> first \o <<Step("context_init", s), Step("node_new", s1)>>
                        \o <<Step("get_logger", s2), Step("get_clock", s2)>>]

\* rosbasesink_open.  ctxOk / nodeOk: whether rclcpp::Context::init and the
\* rclcpp::Node constructor return (they throw otherwise); hookRes: what the
\* subclass open hook returns when there is one.
rosbasesink_open(s, k, ctxOk, nodeOk, hookRes) ==
    LET s1 == [s EXCEPT !.ros_context = IF ctxOk THEN "valid" ELSE "uninitialised"]
        s2 == [s1 EXCEPT !.node = [live |-> TRUE, name |-> s.node_name,
                                   namespace |-> s.node_namespace]]
        s3 == [s2 EXCEPT !.logger = "node", !.clock = "node"]
    IN  IF ~ctxOk
        THEN [sink |-> s1, result |-> FALSE, threw |-> TRUE, hook |-> "none",
              steps |-> <<Step("context_init", s)>>]
        ELSE IF ~nodeOk
        THEN [sink |-> s1, result |-> FALSE, threw |-> TRUE, hook |-> "none",
              steps |-> <<Step("context_init", s), Step("node_new", s1)>>]
        ELSE [sink |-> s3,
              result |-> IF k.open THEN hookRes ELSE TRUE,
              threw |-> FALSE,
              hook |-> IF k.open THEN BoolStr(hookRes) ELSE "none",
              steps |-> <<Step("context_init", s), Step("node_new", s1)>>
                        \o (IF k.open THEN <<Step("open_hook", s2)>> ELSE <<>>)
                        \o <<Step("get_logger", s2), Step("get_clock", s2)>>]

\* Mutant of rosbasesink_close: a failing close hook ends the teardown early,
\* before the node is released and the context shut down.
rosbasesink_close_stopsOnHookFailure(s, k, hookRes) ==
    LET s1 == [s EXCEPT !.clock = "null"]
        s2 == [s1 EXCEPT !.node = NullNode]
        s3 == [s2 EXCEPT !.ros_context = "shutdown"]
    IN  IF k.close /\ ~hookRes
        THEN [sink |-> s1, result |-> FALSE, threw |-> FALSE, hook |-> "FALSE",
              steps |-> <<Step("clock_reset", s), Step("close_hook", s1)>>]
        ELSE [sink |-> s3, result |-> TRUE, threw |-> FALSE,
              hook |-> IF k.close THEN "TRUE" ELSE "none",
              steps |-> <<Step("clock_reset", s)>>
                        \o (IF k.close THEN <<Step("close_hook", s1)>> ELSE <<>>)
                        \o <<Step("node_reset", s1), Step("context_shutdown", s2)>>]

\* Mutant of rosbasesink_close: the node is released before the close hook runs.
rosbasesink_close_nodeFirst(s, k, hookRes) ==
    LET s1 == [s EXCEPT !.clock = "null"]
        s2 == [s1 EXCEPT !.node = NullNode]
        s3 == [s2 EXCEPT !.ros_context = "shutdown"]
    IN  [sink |-> s3,
         result |-> IF k.close THEN hookRes ELSE TRUE,
         threw |-> FALSE,
         hook |-> IF k.close THEN BoolStr(hookRes) ELSE "none",
         steps |-> <<Step("clock_reset", s), Step("node_reset", s1)>>
                   \o (IF k.close THEN <<Step("close_hook", s2)>> ELSE <<>>)
                   \o <<Step("context_shutdown", s2)>>]

\* rosbasesink_close.  hookRes: what the subclass close hook returns when there
\* is one.  Shutting down through a null ros_context is a null dereference.
rosbasesink_close(s, k, hookRes) ==
    LET s1 == [s EXCEPT !.clock = "null"]
        s2 == [s1 EXCEPT !.node = NullNode]
        threw == s2.ros_context = "null"
        s3 == IF threw THEN s2 ELSE [s2 EXCEPT !.ros_context = "shutdown"]
    IN  [sink |-> s3,
         result |-> IF k.close THEN hookRes ELSE TRUE,
         threw |-> threw,
         hook |-> IF k.close THEN BoolStr(hookRes) ELSE "none",
         steps |-> <<Step("clock_reset", s)>>
                   \o (IF k.close THEN <<Step("close_hook", s1)>> ELSE <<>>)
                   \o <<Step("node_reset", s1), Step("context_shutdown", s2)>>]

\* Mutant of BeforeParent: the offset is sampled on the first PAUSED->PLAYING
\* only and kept for the later ones.
BeforeParent_sampleOnce(s, k, transition, in) ==
    CASE transition = "NULL_TO_READY" ->
            LET o == rosbasesink_open(s, k, in.ctxOk, in.nodeOk, in.hook)
            IN  [sink |-> o.sink, failed |-> ~o.result, threw |-> o.threw,
                 hook |-> o.hook, steps |-> o.steps, sampled |-> <<>>]
      [] transition = "PAUSED_TO_PLAYING" /\ s.ros_clock_offset = 0 ->
            LET v == sample_clock_offset(in.gst_now, in.ros_now)
            IN  [sink |-> [s EXCEPT !.ros_clock_offset = v], failed |-> FALSE,
                 threw |-> FALSE, hook |-> "none",
                 steps |-> <<Step("sample_clock_offset", s)>>, sampled |-> <<v>>]
      [] OTHER ->
            [sink |-> s, failed |-> FALSE, threw |-> FALSE, hook |-> "none",
             steps |-> <<>>, sampled |-> <<>>]

\* Mutant of BeforeParent: the two clocks change places in the offset sample.
BeforeParent_clocksSwapped(s, k, transition, in) ==
    CASE transition = "NULL_TO_READY" ->
            LET o == rosbasesink_open(s, k, in.ctxOk, in.nodeOk, in.hook)
            IN  [sink |-> o.sink, failed |-> ~o.result, threw |-> o.threw,
                 hook |-> o.hook, steps |-> o.steps, sampled |-> <<>>]
      [] transition = "PAUSED_TO_PLAYING" ->
            LET v == sample_clock_offset(in.ros_now, in.gst_now)
            IN  [sink |-> [s EXCEPT !.ros_clock_offset = v], failed |-> FALSE,
                 threw |-> FALSE, hook |-> "none",
                 steps |-> <<Step("sample_clock_offset", s)>>, sampled |-> <<v>>]
      [] OTHER ->
            [sink |-> s, failed |-> FALSE, threw |-> FALSE, hook |-> "none",
             steps |-> <<>>, sampled |-> <<>>]

\* The first switch of rosbasesink_change_state: the work done before the
\* parent class handler runs.
BeforeParent(s, k, transition, in) ==
    CASE transition = "NULL_TO_READY" ->
            LET o == rosbasesink_open(s, k, in.ctxOk, in.nodeOk, in.hook)
            IN  [sink |-> o.sink, failed |-> ~o.result, threw |-> o.threw,
                 hook |-> o.hook, steps |-> o.steps, sampled |-> <<>>]
      [] transition = "PAUSED_TO_PLAYING" ->
            LET v == sample_clock_offset(in.gst_now, in.ros_now)
            IN  [sink |-> [s EXCEPT !.ros_clock_offset = v], failed |-> FALSE,
                 threw |-> FALSE, hook |-> "none",
                 steps |-> <<Step("sample_clock_offset", s)>>, sampled |-> <<v>>]
      [] OTHER ->
            [sink |-> s, failed |-> FALSE, threw |-> FALSE, hook |-> "none",
             steps |-> <<>>, sampled |-> <<>>]

\* Mutant of AfterParent: PAUSED->READY tears the connection down as well.
AfterParent_closesOnPausedToReady(s, k, transition, in) ==
    IF transition \in {"READY_TO_NULL", "PAUSED_TO_READY"}
    THEN LET c == rosbasesink_close(s, k, in.hook)
         IN  [sink |-> c.sink, threw |-> c.threw, hook |-> c.hook, steps |-> c.steps]
    ELSE [sink |-> s, threw |-> FALSE, hook |-> "none", steps |-> <<>>]

\* The second switch of rosbasesink_change_state: the work done after the
\* parent class handler has returned.
AfterParent(s, k, transition, in) ==
    IF transition = "READY_TO_NULL"
    THEN LET c == rosbasesink_close(s, k, in.hook)
         IN  [sink |-> c.sink, threw |-> c.threw, hook |-> c.hook, steps |-> c.steps]
    ELSE [sink |-> s, threw |-> FALSE, hook |-> "none", steps |-> <<>>]

\* Mutant of rosbasesink_change_state: the second switch is skipped when the
\* parent class handler reports FAILURE.
rosbasesink_change_state_returnsOnParentFailure(s, k, transition, in) ==
    LET pre == BeforeParent(s, k, transition, in)
        post == IF in.parent = "FAILURE"
                THEN [sink |-> pre.sink, threw |-> FALSE, hook |-> "none", steps |-> <<>>]
                ELSE AfterParent(pre.sink, k, transition, in)
    IN  IF pre.threw
        THEN [sink |-> pre.sink, ret |-> "none", parent |-> "none", threw |-> TRUE,
              hook |-> pre.hook, steps |-> pre.steps, sampled |-> pre.sampled]
        ELSE IF pre.failed
        THEN [sink |-> pre.sink, ret |-> "FAILURE", parent |-> "none", threw |-> FALSE,
              hook |-> pre.hook, steps |-> pre.steps, sampled |-> pre.sampled]
        ELSE [sink |-> post.sink, ret |-> in.parent, parent |-> in.parent,
              threw |-> post.threw,
              hook |-> IF transition = "READY_TO_NULL" THEN post.hook ELSE pre.hook,
              steps |-> pre.steps \o <<Step("parent_change_state", pre.sink)>>
                        \o post.steps,
              sampled |-> pre.sampled]

\* rosbasesink_change_state.  in.parent is what the parent class handler returns.
rosbasesink_change_state(s, k, transition, in) ==
    LET pre == BeforeParent(s, k, transition, in)
        post == AfterParent(pre.sink, k, transition, in)
    IN  IF pre.threw
        THEN [sink |-> pre.sink, ret |-> "none", parent |-> "none", threw |-> TRUE,
              hook |-> pre.hook, steps |-> pre.steps, sampled |-> pre.sampled]
        ELSE IF pre.failed
        THEN [sink |-> pre.sink, ret |-> "FAILURE", parent |-> "none", threw |-> FALSE,
              hook |-> pre.hook, steps |-> pre.steps, sampled |-> pre.sampled]
        ELSE [sink |-> post.sink, ret |-> in.parent, parent |-> in.parent,
              threw |-> post.threw,
              hook |-> IF transition = "READY_TO_NULL" THEN post.hook ELSE pre.hook,
              steps |-> pre.steps \o <<Step("parent_change_state", pre.sink)>>
                        \o post.steps,
              sampled |-> pre.sampled]

\* Mutant of rosbasesink_set_property: the value is stored whether or not a
\* node exists.
rosbasesink_set_property_alwaysStores(s, property_id, value) ==
    [sink |-> IF property_id = "PROP_ROS_NAME"
              THEN [s EXCEPT !.node_name = value]
              ELSE [s EXCEPT !.node_namespace = value],
     accepted |-> TRUE, logged |-> "none"]

\* rosbasesink_set_property for PROP_ROS_NAME / PROP_ROS_NAMESPACE.
rosbasesink_set_property(s, property_id, value) ==
    IF s.node.live
    THEN [sink |-> s, accepted |-> FALSE, logged |-> "error"]
    ELSE [sink |-> IF property_id = "PROP_ROS_NAME"
                   THEN [s EXCEPT !.node_name = value]
                   ELSE [s EXCEPT !.node_namespace = value],
          accepted |-> TRUE, logged |-> "none"]

\* rosbasesink_setcaps: the subclass hook decides; FALSE without one.
rosbasesink_setcaps(k, hookRes) == IF k.set_caps THEN hookRes ELSE FALSE

\* rosbasesink_getcaps: the subclass hook is called when there is one, its
\* result is dropped, and the filter comes back as it was given.
rosbasesink_getcaps(k, filter) == filter

\* Mutant of MsgTime: the offset is subtracted instead of added.
MsgTime_offsetSubtracted(pts, base_time, offset) ==
    ToSigned(ToUnsigned(ToUnsigned(pts + ToUnsigned(base_time)) + ToUnsigned(0 - offset)))

\* The nanoseconds handed to rclcpp::Time(int64_t, clock_type): the sum is
\* formed in unsigned arithmetic (guint64 + gint64 + gint64) and converted.
MsgTime(pts, base_time, offset) ==
    ToSigned(ToUnsigned(ToUnsigned(pts + ToUnsigned(base_time)) + ToUnsigned(offset)))

\* rosbasesink_render.  base is gst_element_get_base_time(); hookRet is what
\* the subclass render hook returns when there is one.  sink->clock is
\* dereferenced unconditionally: with a null clock that is undefined behaviour,
\* which either stops the process (ub = "crash") or reads some clock type and
\* carries on (ub = "continue").
rosbasesink_render(s, k, pts, base, hookRet, ub) ==
    LET base_time == ToSigned(base)
        msg_time == MsgTime(pts, base_time, s.ros_clock_offset)
        out == [ret |-> "FLOW_OK", threw |-> FALSE, hook |-> "none", logged |-> "none",
                base_time |-> base_time, msg_time |-> msg_time]
    IN  IF s.clock = "null" /\ ub = "crash"
        THEN [out EXCEPT !.ret = "none", !.threw = TRUE]
        ELSE IF k.render
        THEN [out EXCEPT !.ret = hookRet, !.hook = hookRet]
        ELSE IF s.node.live
        THEN [out EXCEPT !.logged = "warning"]
        ELSE out

\* ----------------------------------------------------------------- actions

From(transition) ==
    CASE transition = "NULL_TO_READY" -> "Null"
      [] transition = "READY_TO_PAUSED" -> "Ready"
      [] transition = "PAUSED_TO_PLAYING" -> "Paused"
      [] transition = "PLAYING_TO_PAUSED" -> "Playing"
      [] transition = "PAUSED_TO_READY" -> "Paused"
      [] transition = "READY_TO_NULL" -> "Ready"

To(transition) ==
    CASE transition = "NULL_TO_READY" -> "Ready"
      [] transition = "READY_TO_PAUSED" -> "Paused"
      [] transition = "PAUSED_TO_PLAYING" -> "Playing"
      [] transition = "PLAYING_TO_PAUSED" -> "Paused"
      [] transition = "PAUSED_TO_READY" -> "Ready"
      [] transition = "READY_TO_NULL" -> "Null"

\* What the environment decides during one state change; a choice that the
\* transition never reads is fixed.
Inputs(k, transition) ==
    {in \in [ctxOk : BOOLEAN, nodeOk : BOOLEAN, hook : BOOLEAN, parent : ParentReturns,
             gst_now : GstClockReadings, ros_now : RosClockReadings] :
        /\ transition # "NULL_TO_READY" => in.ctxOk /\ in.nodeOk
        /\ ~in.ctxOk => in.nodeOk
        /\ ~(in.ctxOk /\ in.nodeOk) => in.hook /\ in.parent = "SUCCESS"
        /\ ~(transition = "NULL_TO_READY" /\ k.open) /\
           ~(transition = "READY_TO_NULL" /\ k.close) => in.hook
        /\ transition = "NULL_TO_READY" /\ ~in.hook => in.parent = "SUCCESS"
        /\ transition # "PAUSED_TO_PLAYING" =>
              /\ in.gst_now = CHOOSE x \in GstClockReadings : TRUE
              /\ in.ros_now = CHOOSE x \in RosClockReadings : TRUE}

\* The GStreamer core calls change_state for a transition leaving the current
\* state and commits the new state unless the handler reports FAILURE.
\* One call of rosbasesink_change_state with the environment's choices in.
ChangeStateWith(transition, in) ==
    LET r == rosbasesink_change_state(sink, klass, transition, in)
    IN  /\ sink' = r.sink
        /\ crashed' = r.threw
        /\ state' = IF ~r.threw /\ r.ret # "FAILURE" THEN To(transition) ELSE state
        /\ samples' = samples \o r.sampled
        /\ sampledInCycle' =
              IF transition \in {"NULL_TO_READY", "READY_TO_NULL"} THEN FALSE
              ELSE sampledInCycle \/ r.sampled # <<>>
        /\ negotiated' =
              IF transition \in {"NULL_TO_READY", "READY_TO_NULL"} THEN "none"
              ELSE negotiated
        /\ lastCall' = [NoCall EXCEPT !.op = "change_state",
                                      !.transition = transition,
                                      !.ret = r.ret, !.parent = r.parent,
                                      !.hook = r.hook, !.steps = r.steps,
                                      !.hadNode = sink.node.live,
                                      !.before = state]
        /\ UNCHANGED klass

ChangeState(transition) ==
    /\ ~crashed
    /\ state = From(transition)
    /\ \E in \in Inputs(klass, transition) : ChangeStateWith(transition, in)
    /\ UNCHANGED <<peer, clk>>

NullToReady == ChangeState("NULL_TO_READY")
ReadyToPaused == ChangeState("READY_TO_PAUSED")
PausedToPlaying == Len(samples) < MaxSamples /\ ChangeState("PAUSED_TO_PLAYING")
PlayingToPaused == ChangeState("PLAYING_TO_PAUSED")
PausedToReady == ChangeState("PAUSED_TO_READY")
ReadyToNull == ChangeState("READY_TO_NULL")

\* g_object_set of ros-name or ros-namespace.
SetProperty ==
    /\ ~crashed
    /\ \E property_id \in {"PROP_ROS_NAME", "PROP_ROS_NAMESPACE"} :
       \E value \in (IF property_id = "PROP_ROS_NAME" THEN NodeNames ELSE NodeNamespaces) :
          LET r == rosbasesink_set_property(sink, property_id, value)
          IN  /\ sink' = r.sink
              /\ lastCall' = [NoCall EXCEPT !.op = "set_property",
                                            !.transition = property_id,
                                            !.accepted = r.accepted,
                                            !.logged = r.logged,
                                            !.hadNode = sink.node.live,
                                            !.before = state]
    /\ UNCHANGED <<klass, state, negotiated, samples, sampledInCycle, crashed, peer, clk>>

\* The caps event: GstBaseSink calls set_caps with the proposed caps.
SetCaps ==
    /\ ~crashed
    /\ \E caps \in CapsFormats, hookRes \in (IF klass.set_caps THEN BOOLEAN ELSE {FALSE}) :
          LET result == rosbasesink_setcaps(klass, hookRes)
          IN  /\ negotiated' = IF result THEN caps ELSE negotiated
              /\ lastCall' = [NoCall EXCEPT !.op = "set_caps",
                                            !.transition = caps,
                                            !.accepted = result,
                                            !.hook = IF klass.set_caps THEN BoolStr(hookRes)
                                                     ELSE "none",
                                            !.hadNode = sink.node.live,
                                            !.before = state]
    /\ UNCHANGED <<klass, sink, state, samples, sampledInCycle, crashed, peer, clk>>

\* The caps query: GstBaseSink calls get_caps with the peer's filter.
GetCaps ==
    /\ ~crashed
    /\ \E filter \in CapsFilters :
          lastCall' = [NoCall EXCEPT !.op = "get_caps",
                                    !.caps = rosbasesink_getcaps(klass, filter),
                                    !.hadNode = sink.node.live,
                                    !.before = state]
    /\ UNCHANGED <<klass, sink, state, negotiated, samples, sampledInCycle, crashed,
                   peer, clk>>

\* A buffer reaches the sink.
Render ==
    /\ ~crashed
    /\ \E pts \in PtsValues, base \in BaseTimeValues,
          hookRet \in (IF klass.render THEN FlowReturns ELSE {"FLOW_OK"}),
          ub \in (IF sink.clock = "null" THEN {"crash", "continue"} ELSE {"continue"}) :
          LET r == rosbasesink_render(sink, klass, pts, base, hookRet, ub)
          IN  /\ crashed' = r.threw
              /\ lastCall' = [NoCall EXCEPT !.op = "render",
                                            !.ret = r.ret, !.hook = r.hook,
                                            !.logged = r.logged,
                                            !.pts = pts, !.base_time = r.base_time,
                                            !.offset = sink.ros_clock_offset,
                                            !.msg_time = r.msg_time,
                                            !.hadNode = sink.node.live,
                                            !.hadCaps = negotiated # "none",
                                            !.hadSample = sampledInCycle,
                                            !.before = state]
    /\ UNCHANGED <<klass, sink, state, negotiated, samples, sampledInCycle, peer, clk>>

Next ==
    \/ NullToReady
    \/ ReadyToPaused
    \/ PausedToPlaying
    \/ PlayingToPaused
    \/ PausedToReady
    \/ ReadyToNull
    \/ SetProperty
    \/ SetCaps
    \/ GetCaps
    \/ Render

Spec == Init /\ [][Next]_vars

\* --------------------------------------------------- one offset sample

\* What the two clocks can show during one sample: the pipeline clock reads
\* gst_now; the ROS clock is true_offset ahead of it and is read up to Epsilon
\* before or after, so that it reads gst_now + true_offset + skew.
ClockReadings ==
    {c \in [gst_now : {2, 5}, true_offset : {0 - 3, 0, 4},
            skew : (0 - Epsilon)..Epsilon, read : {TRUE}] :
        c.gst_now + c.true_offset + c.skew >= 0}

\* An element that has been opened and taken to Paused.
SampleInit ==
    /\ klass \in Classes
    /\ sink = rosbasesink_open(rosbasesink_init, klass, TRUE, TRUE, TRUE).sink
    /\ state = "Paused"
    /\ negotiated = "none"
    /\ samples = <<>>
    /\ sampledInCycle = FALSE
    /\ crashed = FALSE
    /\ lastCall = NoCall
    /\ peer = NoPeer
    /\ clk = NoClocks

\* PAUSED->PLAYING with the clocks showing c.
SampleOffset ==
    /\ ~crashed
    /\ state = "Paused"
    /\ Len(samples) < MaxSamples
    /\ \E c \in ClockReadings : \E parent \in ParentReturns :
          /\ ChangeStateWith("PAUSED_TO_PLAYING",
                             [ctxOk |-> TRUE, nodeOk |-> TRUE, hook |-> TRUE,
                              parent |-> parent, gst_now |-> c.gst_now,
                              ros_now |-> c.gst_now + c.true_offset + c.skew])
          /\ clk' = c
    /\ UNCHANGED peer

SampleNext ==
    \/ SampleOffset
    \/ PlayingToPaused

SampleSpec == SampleInit /\ [][SampleNext]_vars

\* ------------------------------------------- two elements in one process

\* The second element goes NULL->READY through the same handler.
PeerOpen ==
    /\ ~crashed
    /\ peer.state = "Null"
    /\ \E in \in Inputs(klass, "NULL_TO_READY") :
          LET r == rosbasesink_change_state(peer.sink, klass, "NULL_TO_READY", in)
          IN  /\ peer' = [sink |-> r.sink,
                          state |-> IF ~r.threw /\ r.ret # "FAILURE"
                                    THEN "Ready" ELSE "Null"]
              /\ crashed' = r.threw
    /\ UNCHANGED <<klass, sink, state, negotiated, samples, sampledInCycle, lastCall, clk>>

\* The second element goes READY->NULL.
PeerClose ==
    /\ ~crashed
    /\ peer.state = "Ready"
    /\ \E in \in Inputs(klass, "READY_TO_NULL") :
          LET r == rosbasesink_change_state(peer.sink, klass, "READY_TO_NULL", in)
          IN  /\ peer' = [sink |-> r.sink,
                          state |-> IF ~r.threw /\ r.ret # "FAILURE"
                                    THEN "Null" ELSE "Ready"]
              /\ crashed' = r.threw
    /\ UNCHANGED <<klass, sink, state, negotiated, samples, sampledInCycle, lastCall, clk>>

\* rosbasesink_change_state is handed READY_TO_NULL while the element is in
\* Null.  With a ros_context that was never created, the shutdown call goes
\* through a null pointer: undefined behaviour, which either stops the process
\* (ub = "crash") or carries on (ub = "continue").
CloseAttempt ==
    /\ ~crashed
    /\ state = "Null"
    /\ \E in \in Inputs(klass, "READY_TO_NULL") : \E ub \in {"crash", "continue"} :
          LET r == rosbasesink_change_state(sink, klass, "READY_TO_NULL", in)
          IN  /\ r.threw \/ ub = "continue"
              /\ sink' = r.sink
              /\ crashed' = (r.threw /\ ub = "crash")
              /\ lastCall' = [NoCall EXCEPT !.op = "change_state",
                                            !.transition = "READY_TO_NULL",
                                            !.ret = r.ret, !.parent = r.parent,
                                            !.hook = r.hook, !.steps = r.steps,
                                            !.hadNode = sink.node.live,
                                            !.before = state]
    /\ negotiated' = "none"
    /\ sampledInCycle' = FALSE
    /\ UNCHANGED <<klass, state, samples, peer, clk>>

LifecycleNext ==
    \/ NullToReady
    \/ ReadyToNull
    \/ SetProperty
    \/ PeerOpen
    \/ PeerClose
    \/ CloseAttempt

LifecycleSpec == Init /\ [][LifecycleNext]_vars

\* ------------------------------------------------------------------ claims

IsChangeState(transition) ==
    lastCall.op = "change_state" /\ lastCall.transition = transition

\* The ExternalConnection: the node and its initialised context.
ConnectionExists == sink.node.live /\ sink.ros_context = "valid"
ConnectionAbsent == ~sink.node.live /\ sink.ros_context # "valid"

\* Position of the first step named what in a handler's steps, 0 when it did not run.
StepIndex(steps, what) ==
    IF \E i \in 1..Len(steps) : steps[i].what = what
    THEN CHOOSE i \in 1..Len(steps) :
            steps[i].what = what /\ \A j \in 1..(i - 1) : steps[j].what # what
    ELSE 0

\* C1: in every state reached by state changes along the lattice (failed ones
\* included) the connection exists iff the element is in Ready, Paused or
\* Playing.  States in which the process has not died are the ones looked at.
C1_ConnectionIffOpened ==
    ~crashed =>
        IF state \in {"Ready", "Paused", "Playing"} THEN ConnectionExists
        ELSE ConnectionAbsent

\* C2: a NULL->READY whose open fails returns GST_STATE_CHANGE_FAILURE, leaves
\* the element in Null and leaves no node and no context behind.  Stated for
\* the calls that return: the open hook reported failure.
C2_FailedOpenLeavesNothing ==
    IsChangeState("NULL_TO_READY") /\ ~crashed /\ lastCall.hook = "FALSE" =>
        /\ lastCall.ret = "FAILURE"
        /\ state = "Null"
        /\ ConnectionAbsent

\* C3: a READY->NULL always completes the teardown (node released, context shut
\* down), whatever the close hook returns, and returns what the parent class
\* handler returned.
C3_CloseAlwaysCompletes ==
    IsChangeState("READY_TO_NULL") =>
        /\ ~crashed
        /\ ~sink.node.live
        /\ sink.ros_context = "shutdown"
        /\ lastCall.ret = lastCall.parent
        /\ lastCall.ret \in ParentReturns

\* C3 witness: a READY->NULL whose close hook reported failure has completed.
C3_Witness ==
    /\ IsChangeState("READY_TO_NULL")
    /\ lastCall.hook = "FALSE"
    /\ lastCall.ret = "SUCCESS"
    /\ state = "Null"
    /\ ~sink.node.live

\* C4: a set of ros-name / ros-namespace is rejected exactly when the
\* connection exists, and is accepted whenever the element is in Null.
C4_IdentitySetOnlyInNull ==
    lastCall.op = "set_property" =>
        /\ ~lastCall.accepted <=> ConnectionExists
        /\ lastCall.accepted => lastCall.logged = "none"
        /\ ~lastCall.accepted => lastCall.logged = "error"
        /\ state = "Null" => lastCall.accepted

\* C5: every PAUSED->PLAYING takes exactly one clock-offset sample and stores it
\* as the current offset; no other call samples or changes the offset.
C5_SampleOnEveryPlay ==
    [][IF lastCall'.op = "change_state" /\ lastCall'.transition = "PAUSED_TO_PLAYING"
       THEN /\ Len(samples') = Len(samples) + 1
            /\ SubSeq(samples', 1, Len(samples)) = samples
            /\ sink'.ros_clock_offset = samples'[Len(samples')]
       ELSE /\ samples' = samples
            /\ sink'.ros_clock_offset = sink.ros_clock_offset]_vars

\* C5 witness: a second Playing session has replaced the first session's offset
\* by a different one.
C5_Witness ==
    /\ IsChangeState("PAUSED_TO_PLAYING")
    /\ state = "Playing"
    /\ Len(samples) = 2
    /\ samples[1] # samples[2]
    /\ sink.ros_clock_offset = samples[2]

\* C6: every render inside a Ready..Null cycle stamps its buffer with an offset
\* sampled by a PAUSED->PLAYING earlier in that cycle.
C6_RenderUsesSampledOffset ==
    lastCall.op = "render" /\ ~crashed /\ lastCall.before # "Null" =>
        lastCall.hadSample

\* C7: a render with no format negotiated or no connection drops the buffer
\* (the render hook is not run), logs a warning, returns GST_FLOW_OK and does
\* not crash.  Stated for the calls made while the node exists, where
\* rosbasesink_render has no undefined behaviour.
C7_RenderFailsFast ==
    lastCall.op = "render" /\ lastCall.hadNode /\ ~lastCall.hadCaps =>
        /\ ~crashed
        /\ lastCall.hook = "none"
        /\ lastCall.logged = "warning"
        /\ lastCall.ret = "FLOW_OK"

\* C8: the subclass render hook never runs before a NULL->READY has succeeded
\* and a set_caps has been accepted in the current cycle, nor after the
\* teardown.  Stated for the calls made while the node exists.
C8_NoRenderHookBeforeCaps ==
    lastCall.op = "render" /\ lastCall.hook # "none" /\ lastCall.hadNode =>
        /\ lastCall.before # "Null"
        /\ lastCall.hadCaps

\* C9 (as claimed): the timestamp handed to the render hook is exactly
\* pts + base_time + offset for every pts, base_time and offset.
C9_TimestampExact ==
    lastCall.op = "render" /\ lastCall.hook # "none" /\ lastCall.hadNode =>
        lastCall.msg_time = lastCall.pts + lastCall.base_time + lastCall.offset

\* C9 (amended): the timestamp handed to the render hook is pts + base_time +
\* offset reduced modulo 2^WordBits into the signed range; it is exactly the
\* sum whenever the sum lies in the signed range, negative offsets included.
C9_TimestampModular ==
    lastCall.op = "render" /\ lastCall.hook # "none" =>
        LET sum == lastCall.pts + lastCall.base_time + lastCall.offset
        IN  /\ lastCall.msg_time = ToSigned(ToUnsigned(sum))
            /\ (MinSigned <= sum /\ sum <= MaxSigned) => lastCall.msg_time = sum
            /\ (sum > MaxSigned) => lastCall.msg_time = sum - Modulus

\* C9 witness: a buffer stamped under a negative offset, the sum in range.
C9_Witness ==
    /\ lastCall.op = "render"
    /\ lastCall.hook # "none"
    /\ lastCall.offset < 0
    /\ lastCall.pts > 0
    /\ lastCall.base_time > 0
    /\ lastCall.msg_time = lastCall.pts + lastCall.base_time + lastCall.offset

\* C10: on READY->NULL the close hook runs first, before anything is released
\* (it sees node and context as they were when the teardown began, so an open
\* connection still exists for it), then the node is released, then the
\* context is shut down: the reverse of the order (context, node, open hook)
\* in which NULL->READY acquired them.
C10_TeardownReversesOpen ==
    /\ IsChangeState("READY_TO_NULL") =>
          LET st == lastCall.steps
              h == StepIndex(st, "close_hook")
              n == StepIndex(st, "node_reset")
              c == StepIndex(st, "context_shutdown")
          IN  /\ 0 < n /\ n < c
              /\ lastCall.hook # "none" =>
                    /\ 0 < h /\ h < n
                    /\ st[h].node = st[1].node /\ st[h].ctx = st[1].ctx
                    /\ lastCall.hadNode => st[h].node /\ st[h].ctx = "valid"
              /\ st[n].ctx = st[1].ctx
              /\ ~st[c].node
    /\ IsChangeState("NULL_TO_READY") /\ ~crashed =>
          LET st == lastCall.steps
              c == StepIndex(st, "context_init")
              n == StepIndex(st, "node_new")
              h == StepIndex(st, "open_hook")
          IN  /\ 0 < c /\ c < n
              /\ lastCall.hook # "none" => n < h

\* C10 witness: a READY->NULL on a class with a close hook has torn down.
C10_Witness ==
    /\ IsChangeState("READY_TO_NULL")
    /\ lastCall.hook # "none"
    /\ lastCall.hadNode
    /\ lastCall.steps[StepIndex(lastCall.steps, "close_hook")].node
    /\ sink.ros_context = "shutdown"

\* C11: once set_caps has accepted a format inside a Ready..Null cycle, no
\* later set_caps of that cycle replaces it by another one.  Stated for
\* proposals whose format is in the pad template.
C11_FormatFrozenInCycle ==
    [][state # "Null" /\ state' # "Null"
       /\ negotiated # "none" /\ negotiated' \in TemplateFormats
       => negotiated' = negotiated]_vars

\* C12: negotiation keeps to the pad template: what get_caps offers out of a
\* proposal lies in the template's format list, and a proposed format is
\* accepted by set_caps exactly when it is in that list.  Stated for set_caps
\* calls that no subclass hook decides.
C12_NegotiationFollowsTemplate ==
    /\ lastCall.op = "get_caps" =>
          \A i \in 1..Len(lastCall.caps) : lastCall.caps[i] \in TemplateFormats
    /\ lastCall.op = "set_caps" /\ lastCall.hook = "none" =>
          (lastCall.accepted <=> lastCall.transition \in TemplateFormats)

\* The four transitions between Ready, Paused and Playing.
InnerTransitions ==
    {"READY_TO_PAUSED", "PAUSED_TO_PLAYING", "PLAYING_TO_PAUSED", "PAUSED_TO_READY"}

\* C13: READY->PAUSED, PAUSED->PLAYING, PLAYING->PAUSED and PAUSED->READY leave
\* node, context, node name and node namespace as they were; PAUSED->PLAYING
\* changes the clock offset and nothing else of the element, the other three
\* change no field of it.
C13_InnerTransitionsKeepConnection ==
    [][lastCall'.op = "change_state" /\ lastCall'.transition \in InnerTransitions =>
          /\ sink'.node = sink.node
          /\ sink'.ros_context = sink.ros_context
          /\ sink'.node_name = sink.node_name
          /\ sink'.node_namespace = sink.node_namespace
          /\ sink' = [sink EXCEPT !.ros_clock_offset = sink'.ros_clock_offset]
          /\ lastCall'.transition # "PAUSED_TO_PLAYING" => sink' = sink]_vars

\* C13 witness: a PAUSED->READY after a Playing session: the connection and the
\* offset sampled on the way to Playing are still there.
C13_Witness ==
    /\ IsChangeState("PAUSED_TO_READY")
    /\ state = "Ready"
    /\ ConnectionExists
    /\ Len(samples) = 1
    /\ sink.ros_clock_offset = samples[1]
    /\ sink.ros_clock_offset # 0

\* C17: on NULL->READY the open hook runs after the context has been initialised
\* and the node constructed: when the hook runs, the context is valid and the
\* node exists; the node bears the configured name and namespace.
C17_OpenHookSeesNode ==
    IsChangeState("NULL_TO_READY") /\ lastCall.hook # "none" =>
        LET st == lastCall.steps
            c == StepIndex(st, "context_init")
            n == StepIndex(st, "node_new")
            h == StepIndex(st, "open_hook")
        IN  /\ 0 < c /\ c < n /\ n < h
            /\ st[h].ctx = "valid"
            /\ st[h].node
            /\ sink.node.live
            /\ sink.node.name = sink.node_name
            /\ sink.node.namespace = sink.node_namespace

\* C17 witness: the open hook has run on an element configured with a name and
\* a namespace of its own.
C17_Witness ==
    /\ IsChangeState("NULL_TO_READY")
    /\ lastCall.hook = "TRUE"
    /\ state = "Ready"
    /\ sink.node.name = "gst_audio"
    /\ sink.node.namespace = "ns"

\* C18: whenever the node exists, the name and namespace it was constructed
\* with are the current values of the node_name and node_namespace properties.
C18_NodeIdentityMatchesProperties ==
    sink.node.live =>
        /\ sink.node.name = sink.node_name
        /\ sink.node.namespace = sink.node_namespace

\* C18 witness: a set_property arrived while a node with a configured identity
\* existed, and was turned down.
C18_Witness ==
    /\ lastCall.op = "set_property"
    /\ lastCall.hadNode
    /\ ~lastCall.accepted
    /\ sink.node.live
    /\ sink.node.name = "gst_audio"
    /\ sink.node.namespace = "ns"

\* C19: rosbasesink_change_state and the parent class handler: on NULL->READY
\* the open comes first and a failed open ends the call with FAILURE without the
\* parent handler; on PAUSED->PLAYING the offset is sampled before the parent
\* handler; on READY->NULL the close comes after the parent handler, whatever
\* that returned; whenever the parent handler ran, its result is the value
\* returned.
C19_OrderAroundParent ==
    lastCall.op = "change_state" =>
        LET st == lastCall.steps
            p == StepIndex(st, "parent_change_state")
        IN  /\ IsChangeState("NULL_TO_READY") =>
                /\ StepIndex(st, "context_init") = 1
                /\ lastCall.hook = "FALSE" =>
                      p = 0 /\ lastCall.ret = "FAILURE" /\ lastCall.parent = "none"
                /\ ~crashed /\ lastCall.hook # "FALSE" =>
                      /\ p = Len(st)
                      /\ StepIndex(st, "node_new") \in 1..(p - 1)
                      /\ StepIndex(st, "get_clock") \in 1..(p - 1)
            /\ IsChangeState("PAUSED_TO_PLAYING") =>
                StepIndex(st, "sample_clock_offset") = 1 /\ p = 2
            /\ IsChangeState("READY_TO_NULL") =>
                /\ p = 1
                /\ StepIndex(st, "clock_reset") = 2
                /\ StepIndex(st, "node_reset") > p
                /\ StepIndex(st, "context_shutdown") > p
                /\ lastCall.parent \in ParentReturns
            /\ lastCall.transition \in InnerTransitions \ {"PAUSED_TO_PLAYING"} =>
                st = <<Step("parent_change_state", sink)>>
            /\ p > 0 => lastCall.ret = lastCall.parent /\ lastCall.ret \in ParentReturns
            /\ p = 0 => IsChangeState("NULL_TO_READY")

\* C19 witness: a READY->NULL whose parent handler reported FAILURE has run the
\* close all the same and returned FAILURE.
C19_Witness ==
    /\ IsChangeState("READY_TO_NULL")
    /\ lastCall.parent = "FAILURE"
    /\ lastCall.ret = "FAILURE"
    /\ StepIndex(lastCall.steps, "node_reset") > 1
    /\ state = "Ready"
    /\ ~sink.node.live

C14_NoTwoOpenWithSameName ==
    ~ /\ ~crashed
      /\ state = "Ready" /\ peer.state = "Ready"
      /\ sink.node.live /\ peer.sink.node.live
      /\ sink.node.name = peer.sink.node.name
      /\ sink.node.namespace = peer.sink.node.namespace

\* C15: a READY_TO_NULL handed to an element without a connection does not
\* stop the process, changes no field of the element and, on an element in
\* Null, leaves it in Null.
C15_CloseWithoutConnectionIsNoOp ==
    [][/\ lastCall'.op = "change_state" /\ lastCall'.transition = "READY_TO_NULL"
       /\ lastCall' # lastCall
       /\ ConnectionAbsent
       => /\ ~crashed'
          /\ sink' = sink
          /\ state = "Null" => state' = "Null"]_vars

====
